---- MODULE Spec2Model ----
(***************************************************************************)
(* Model of the hex-grid core of sand_casting: the cell registry built by  *)
(* WorldGridManager (ring spiral), the pixel <-> hex conversions of        *)
(* HexGridCell, the highlight toggle driven by mouse clicks, and the       *)
(* radial expansion of add_radials_to_mesh.                                *)
(*                                                                         *)
(* f32 values are modelled as fixed-point integers with SCALE units per    *)
(* 1.0; every f32 operation yields the exact result rounded to that grid.  *)
(* Angles are multiples of PI/6 and are carried as their index k (k*PI/6). *)
(***************************************************************************)
EXTENDS Integers, Sequences, FiniteSets, TLC

(***************************************************************************)
(* Bounds of the model                                                     *)
(***************************************************************************)
\* Largest radial_size of the registry the host events act on
MaxRadius == 1
\* Largest grid radius of the context of that registry
MaxGridRadius == 2
\* Largest number of host events (API calls, mouse clicks) after construction
MaxEvents == 2
\* Largest radial_size of the construction runs
MaxBuildRadius == 3
\* Largest grid radius of the conversion runs
MaxConvRadius == 6
\* Distance, in pixels, between the points of the conversion runs
ConvStep == 7
\* Largest radius handed to add_radials_to_mesh
MaxRadialRadius == 3
\* Largest grid radius of the context of a game with placed entities
MaxPlaceRadius == 1
\* Largest ci_ctx.max_rand_attempts()
MaxAttempts == 2
\* Largest number of host events followed besides the first update
MaxUpdates == 2
\* Largest radius of a random resource
MaxResourceRadius == 1
\* Largest radius of a polygon handed to new_from_pixel_coords, in pixels
MaxPolyRadius == 27
\* Largest radius of the disk the cells of an adjacency query are taken from
MaxAdjRadius == 2
\* Largest radius, and largest offset from radius 3340, a capacity is computed for
MaxCapRadius == 40

(***************************************************************************)
(* Fixed-point arithmetic standing for f32                                 *)
(***************************************************************************)
\* Units per 1.0
SCALE == 1000

Abs(n) == IF n < 0 THEN -n ELSE n

Sign(n) == IF n < 0 THEN -1 ELSE 1

\* n / d rounded to the nearest integer, halves away from zero (d > 0)
RoundDiv(n, d) == Sign(n) * ((2 * Abs(n) + d) \div (2 * d))

\* Product of two fixed-point values
FMul(a, b) == RoundDiv(a * b, SCALE)

\* Quotient of two fixed-point values
FDiv(a, b) == Sign(b) * RoundDiv(a * SCALE, Abs(b))

\* f32::round: nearest integer, halves away from zero
FRound(a) == RoundDiv(a, SCALE)

\* An integer as an f32
ToF(n) == n * SCALE

\* sqrt(3) as an f32
SQRT3 == 1732

\* cos(k*PI/6) and sin(k*PI/6)
CosTab == <<1000, 866, 500, 0, -500, -866, -1000, -866, -500, 0, 500, 866>>

SinTab == <<0, 500, 866, 1000, 866, 500, 0, -500, -866, -1000, -866, -500>>

FCos(k) == CosTab[(k % 12) + 1]

FSin(k) == SinTab[(k % 12) + 1]

(***************************************************************************)
(* Program constants                                                       *)
(***************************************************************************)
NUM_ADDITIONAL_CELLS_PER_LEVEL == 6

\* Center-to-vertex distance of a cell, in pixels
HEX_RADIUS_VERTEX == 25 * SCALE

\* Center-to-side distance of a cell: HEX_RADIUS_VERTEX * sin(PI/3)
HEX_RADIUS_SIDE == FMul(HEX_RADIUS_VERTEX, FSin(2))

\* Window size in pixels
WINDOW_X == 800

WINDOW_Y == 600

\* ggez_gfx::size(ggez_ctx)
WindowSize == [x |-> ToF(WINDOW_X), y |-> ToF(WINDOW_Y)]

\* Minimum value for alpha reduction on radials (0.1)
MIN_ALPHA_VAL == 100

(***************************************************************************)
(* hex_directions: sides, vertices, their angles and the provider          *)
(***************************************************************************)
\* f32::from(Side), as a multiple of PI/6
SideAngle(s) ==
    CASE s = "NORTHEAST" -> 1
      [] s = "NORTH"     -> 3
      [] s = "NORTHWEST" -> 5
      [] s = "SOUTHWEST" -> 7
      [] s = "SOUTH"     -> 9
      [] s = "SOUTHEAST" -> 11

\* f32::from(Vertex), as a multiple of PI/6
VertexAngle(v) ==
    CASE v = "EAST"      -> 0
      [] v = "NORTHEAST" -> 2
      [] v = "NORTHWEST" -> 4
      [] v = "WEST"      -> 6
      [] v = "SOUTHWEST" -> 8
      [] v = "SOUTHEAST" -> 10

\* Counter-clockwise order of the sides and of the vertices
SideOrder == <<"NORTH", "NORTHWEST", "SOUTHWEST", "SOUTH", "SOUTHEAST", "NORTHEAST">>

VertexOrder == <<"EAST", "NORTHEAST", "NORTHWEST", "WEST", "SOUTHWEST", "SOUTHEAST">>

IndexIn(seq, e) == CHOOSE i \in 1..Len(seq) : seq[i] = e

\* hex_directions::Provider::new(start) collected: the six directions of
\* `order`, counter-clockwise from `start`
Provider(order, start) ==
    [i \in 1..6 |-> order[((IndexIn(order, start) - 1 + (i - 1)) % 6) + 1]]

(***************************************************************************)
(* coords: Position and Translation                                        *)
(***************************************************************************)
Pos(x, y, z) == [x |-> x, y |-> y, z |-> z]

\* coords::Position::default()
PositionDefault == Pos(0, 0, 0)

\* coords::Translation::from(Side)
TranslationFrom(s) ==
    CASE s = "NORTH"     -> Pos(0, 1, -1)
      [] s = "NORTHEAST" -> Pos(1, 0, -1)
      [] s = "SOUTHEAST" -> Pos(1, -1, 0)
      [] s = "SOUTH"     -> Pos(0, -1, 1)
      [] s = "SOUTHWEST" -> Pos(-1, 0, 1)
      [] s = "NORTHWEST" -> Pos(-1, 1, 0)

Ok(v) == [ok |-> TRUE, val |-> v]

Err(e) == [ok |-> FALSE, err |-> e]

\* coords::Position::new(x, y, z, ctx), ctx.grid_radius() = radius
PositionNew(x, y, z, radius) ==
    IF Abs(x) > radius \/ Abs(y) > radius \/ Abs(z) > radius
    THEN Err("OutOfBounds")
    ELSE IF x + y + z # 0
         THEN Err("ConstraintViolation")
         ELSE Ok(Pos(x, y, z))

\* coords::Position::translate(&mut self, trans, ctx): the new position or the error
PositionTranslate(p, t, radius) == PositionNew(p.x + t.x, p.y + t.y, p.z + t.z, radius)

\* max(|x|,|y|,|z|)
AxisMax(p) ==
    LET ax == Abs(p.x)
        ay == Abs(p.y)
        az == Abs(p.z)
    IN  IF ax >= ay /\ ax >= az THEN ax ELSE IF ay >= az THEN ay ELSE az

\* All cube coordinates within `radius` of the origin
Disk(radius) ==
    {Pos(c[1], c[2], -c[1] - c[2]) :
        c \in {d \in (-radius..radius) \X (-radius..radius) : Abs(d[1] + d[2]) <= radius}}

(***************************************************************************)
(* HexGridCell                                                             *)
(***************************************************************************)
Point(x, y) == [x |-> x, y |-> y]

\* new_from_pixel_coords with the vertices going clockwise on the screen
new_from_pixel_coords_clockwise(center, radius) ==
    LET x_offset == FMul(radius, FCos(2))
        y_offset == FMul(radius, FSin(2))
    IN  [center    |-> center,
         vertices  |-> << Point(center.x + radius,   center.y),
                          Point(center.x + x_offset, center.y + y_offset),
                          Point(center.x - x_offset, center.y + y_offset),
                          Point(center.x - radius,   center.y),
                          Point(center.x - x_offset, center.y - y_offset),
                          Point(center.x + x_offset, center.y - y_offset) >>,
         highlight |-> FALSE]

\* HexGridCell::new_from_pixel_coords
new_from_pixel_coords(center, radius) ==
    LET x_offset == FMul(radius, FCos(2))
        y_offset == FMul(radius, FSin(2))
    IN  [center    |-> center,
         vertices  |-> << Point(center.x + radius,   center.y),
                          Point(center.x + x_offset, center.y - y_offset),
                          Point(center.x - x_offset, center.y - y_offset),
                          Point(center.x - radius,   center.y),
                          Point(center.x - x_offset, center.y + y_offset),
                          Point(center.x + x_offset, center.y + y_offset) >>,
         highlight |-> FALSE]

\* hex_to_pixel_coords with the x offset of a full hex width per column
hex_to_pixel_coords_wide(hex_pos) ==
    LET window_center == Point(WindowSize.x \div 2, WindowSize.y \div 2)
        x_offset == FMul(ToF(hex_pos.x), HEX_RADIUS_VERTEX) * 3
        y_offset == FMul(FMul(ToF(-hex_pos.y), FSin(SideAngle("NORTHWEST"))), HEX_RADIUS_SIDE * 2)
                  + FMul(FMul(ToF(-hex_pos.z), FSin(SideAngle("SOUTHWEST"))), HEX_RADIUS_SIDE * 2)
    IN  Point(window_center.x + x_offset, window_center.y + y_offset)

\* HexGridCell::hex_to_pixel_coords
hex_to_pixel_coords(hex_pos) ==
    LET window_center == Point(WindowSize.x \div 2, WindowSize.y \div 2)
        x_offset == RoundDiv(FMul(ToF(hex_pos.x), HEX_RADIUS_VERTEX) * 3, 2)
        y_offset == FMul(FMul(ToF(-hex_pos.y), FSin(SideAngle("NORTHWEST"))), HEX_RADIUS_SIDE * 2)
                  + FMul(FMul(ToF(-hex_pos.z), FSin(SideAngle("SOUTHWEST"))), HEX_RADIUS_SIDE * 2)
    IN  Point(window_center.x + x_offset, window_center.y + y_offset)

\* HexGridCell::new_from_hex_coords
new_from_hex_coords(center, radius) ==
    new_from_pixel_coords(hex_to_pixel_coords(center), radius)

\* The triple of roundings of hex_round
HexRounded(x, y, z) == Pos(FRound(x), FRound(y), FRound(z))

\* hex_round resetting the z component whatever the deltas are
hex_round_reset_z(x, y, z, radius) ==
    PositionNew(FRound(x), FRound(y), -FRound(x) - FRound(y), radius)

\* hex_round without the reset of the component with the largest delta
hex_round_unrepaired(x, y, z, radius) ==
    PositionNew(FRound(x), FRound(y), FRound(z), radius)

\* hex_round resetting the component with the smallest delta
hex_round_smallest(x, y, z, radius) ==
    LET rounded_x == FRound(x)
        rounded_y == FRound(y)
        rounded_z == FRound(z)
        delta_x == Abs(x - ToF(rounded_x))
        delta_y == Abs(y - ToF(rounded_y))
        delta_z == Abs(z - ToF(rounded_z))
    IN  IF delta_x < delta_y /\ delta_x < delta_z
        THEN PositionNew(-rounded_y - rounded_z, rounded_y, rounded_z, radius)
        ELSE IF delta_y < delta_z
             THEN PositionNew(rounded_x, -rounded_x - rounded_z, rounded_z, radius)
             ELSE PositionNew(rounded_x, rounded_y, -rounded_x - rounded_y, radius)

\* HexGridCell::hex_round
hex_round(x, y, z, radius) ==
    LET rounded_x == FRound(x)
        rounded_y == FRound(y)
        rounded_z == FRound(z)
        delta_x == Abs(x - ToF(rounded_x))
        delta_y == Abs(y - ToF(rounded_y))
        delta_z == Abs(z - ToF(rounded_z))
    IN  IF delta_x > delta_y /\ delta_x > delta_z
        THEN PositionNew(-rounded_y - rounded_z, rounded_y, rounded_z, radius)
        ELSE IF delta_y > delta_z
             THEN PositionNew(rounded_x, -rounded_x - rounded_z, rounded_z, radius)
             ELSE PositionNew(rounded_x, rounded_y, -rounded_x - rounded_y, radius)

\* The fractional cube coordinates pixel_to_hex_coords hands to hex_round
PixelToFractional(cart_coords) ==
    LET window_center == Point(WindowSize.x \div 2, WindowSize.y \div 2)
        x_delta == cart_coords.x - window_center.x
        y_delta == cart_coords.y - window_center.y
        x == FDiv(RoundDiv(2 * x_delta, 3), HEX_RADIUS_VERTEX)
        z == FDiv(RoundDiv(-x_delta, 3) + RoundDiv(SQRT3 * y_delta, 3 * SCALE), HEX_RADIUS_VERTEX)
    IN  [x |-> x, y |-> -x - z, z |-> z]

\* HexGridCell::pixel_to_hex_coords, ci_ctx.grid_radius() = radius
pixel_to_hex_coords(cart_coords, radius) ==
    LET f == PixelToFractional(cart_coords)
    IN  hex_round(f.x, f.y, f.z, radius)

\* toggle_highlight switching the highlight on instead of flipping it
toggle_highlight_on(hex_cell) == [hex_cell EXCEPT !.highlight = TRUE]

\* HexGridCell::toggle_highlight
toggle_highlight(hex_cell) == [hex_cell EXCEPT !.highlight = ~hex_cell.highlight]

(***************************************************************************)
(* State                                                                   *)
(***************************************************************************)
VARIABLES
    grid_radius,            \* ci_ctx.grid_radius()
    radial_size,            \* WorldGridManager.radial_size
    hex_map,                \* WorldGridManager.hex_map: Position -> HexGridCell
    base_grid_mesh,         \* WorldGridManager.base_grid_mesh: the polygons of the mesh
    map_size,               \* capacity reserved by build_default_hex_cell_map
    pc,                     \* "new", "ring", "walk": inside WorldGridManager::new;
                            \* "ready": constructed; "panicked": the program aborted
    cur_hex_position,       \* build_default_hex_cell_map: cur_hex_position
    radial_level,           \* build_default_hex_cell_map: radial_level
    directions,             \* build_default_hex_cell_map: what is left of the provider
    intradirection_step,    \* build_default_hex_cell_map: _intradirection_step
    spiral,                 \* history: the hex_map.insert calls, in order, with their level
    events,                 \* history: number of host events handled since construction
    last_op,                \* history: the last host event and its outcome
    before_last,            \* history: hex_map as it was before the last host event
    hex_pos,                \* conversion run: Ok(the coordinate converted), if any
    cart_coords,            \* conversion run: the pixel point
    conv_result,            \* conversion run: what pixel_to_hex_coords returned
    conv_pc,                \* conversion run: "idle", "pixel", "done"
    hit_cell,               \* conversion run: Ok(the cell the pixel was taken inside), if any
    rad_pc,                 \* add_radials_to_mesh: "idle", "level", "vertex", "inter", "done"
    rad_args,               \* add_radials_to_mesh: self.center, fill alpha, radius, has_gradient
    cur_fill_alpha,         \* add_radials_to_mesh: cur_fill_color.a
    radial_vertices,        \* add_radials_to_mesh: radial_vertices
    level,                  \* add_radials_to_mesh: level
    rad_directions,         \* add_radials_to_mesh: what is left of direction_provider
    rad_i,                  \* add_radials_to_mesh: i
    rad_j,                  \* add_radials_to_mesh: j
    mesh_builder,           \* add_radials_to_mesh: the cells added to mesh_builder, in order
    adj_prev,               \* update_obstacle_mesh: prev_obstacle_coords
    adj_cur,                \* update_obstacle_mesh: obstacle_coords
    adj_result,             \* update_obstacle_mesh: Ok(direction, shared_line) of the pair
    adj_pc,                 \* update_obstacle_mesh: "idle", "done", "panicked"
    poly_center,            \* new_from_pixel_coords: center
    poly_radius,            \* new_from_pixel_coords: radius
    poly_cell,              \* new_from_pixel_coords: Ok(the cell returned)
    poly_pc,                \* new_from_pixel_coords: "idle", "done"
    ci_max_rand_attempts,   \* ci_ctx.max_rand_attempts()
    initialized,            \* SandCastingGameState.initialized
    actors,                 \* ActorManager.actors: the origin of each actor
    obstacles,              \* ObstacleManager.obstacles: all_coords of each obstacle
    resources,              \* ResourceManager.resources: coords and radius of each resource
    meshes,                 \* actor_mesh, obstacle_mesh, resource_mesh: what each was built from
    game_pc,                \* "new", "initialize": inside initialize, "running", "panicked"
    init_phase,             \* initialize: the loop it is in: "resources", "obstacles", "actors"
    init_i,                 \* initialize: _i of that loop
    rand_pc,                \* add_rand_instance: "idle": not called, "loop": inside
    attempts,               \* add_rand_instance: attempts
    updates,                \* history: number of host events handled besides the first update
    place_last,             \* history: the last add_instance call and its result
    place_before,           \* history: the placed entities before that call
    rand_calls,             \* history: add_instance calls made by the last add_rand_instance
    rand_added,             \* history: instances added by the last add_rand_instance
    rand_result             \* history: what the last add_rand_instance returned

registry_vars == <<radial_size, hex_map, base_grid_mesh, map_size, pc, cur_hex_position,
                   radial_level, directions, intradirection_step, spiral, events,
                   last_op, before_last>>

conv_vars == <<hex_pos, cart_coords, conv_result, conv_pc, hit_cell>>

radial_vars == <<rad_pc, rad_args, cur_fill_alpha, radial_vertices, level, rad_directions,
                 rad_i, rad_j, mesh_builder>>

adjacency_vars == <<adj_prev, adj_cur, adj_result, adj_pc>>

polygon_vars == <<poly_center, poly_radius, poly_cell, poly_pc>>

place_vars == <<ci_max_rand_attempts, initialized, actors, obstacles, resources, meshes,
                game_pc, init_phase, init_i, rand_pc, attempts, updates, place_last,
                place_before, rand_calls, rand_added, rand_result>>

vars == <<grid_radius, registry_vars, conv_vars, radial_vars, adjacency_vars, polygon_vars,
          place_vars>>

(***************************************************************************)
(* WorldGridManager                                                        *)
(***************************************************************************)
\* Starting direction of a new hex ring
NEW_RING_START_DIRECTION == "NORTHEAST"

\* First intra-ring direction in new hex ring
FIRST_INTRARING_DIRECTION == "NORTH"

\* HashMap::insert
MapInsert(map, key, value) ==
    [k \in (DOMAIN map) \cup {key} |-> IF k = key THEN value ELSE map[k]]

\* HexGridCell::add_to_mesh: the polygons one cell adds to a mesh builder
add_to_mesh(hex_cell, fill_color, outline_color) ==
    {[mode |-> "fill", points |-> hex_cell.vertices, color |-> fill_color],
     [mode |-> "stroke", points |-> hex_cell.vertices, color |-> outline_color]}
    \cup (IF hex_cell.highlight
          THEN {[mode |-> "fill", points |-> hex_cell.vertices, color |-> "HILITE_STD"]}
          ELSE {})

\* WorldGridManager::update_base_mesh: the mesh built from a map
update_base_mesh(map) ==
    UNION {add_to_mesh(map[p], "TRANSPARENT", "DEFAULT_LINE_COLOR") : p \in DOMAIN map}

\* The line mesh WorldGridManager::new starts from
PlaceholderMesh ==
    {[mode |-> "line", points |-> <<Point(0, 0), Point(ToF(10), ToF(10))>>,
      color |-> "DEFAULT_LINE_COLOR"]}

\* The distance between the f32 values around a non-negative integer n: the
\* significand of an f32 has 24 bits
RECURSIVE F32Ulp(_, _)
F32Ulp(n, e) == IF n < 16777216 * e THEN e ELSE F32Ulp(n, 2 * e)

\* A non-negative integer rounded to the nearest f32, ties to the even
\* significand: what `as f32` and every f32 operation on integral values do
F32(n) ==
    LET e == F32Ulp(n, 1)
        q == n \div e
        rem == n % e
    IN  IF 2 * rem > e \/ (2 * rem = e /\ q % 2 = 1) THEN (q + 1) * e ELSE q * e

\* map_size without the `2.0*NUM_ADDITIONAL_CELLS_PER_LEVEL` term of the sum
MapSize_without_first(size) ==
    LET levels == F32(F32(size) * NUM_ADDITIONAL_CELLS_PER_LEVEL) - NUM_ADDITIONAL_CELLS_PER_LEVEL
    IN  1 + ((F32(size) * levels) \div 2)

\* build_default_hex_cell_map: map_size. The half of radial_size as f32 is
\* exact; its product with the sum is rounded to an f32 and truncated by
\* `as usize`
MapSize(size) ==
    LET per_level == F32(NUM_ADDITIONAL_CELLS_PER_LEVEL)
        first == F32(2 * per_level)
        rest == IF size = 0 THEN -per_level ELSE F32(F32(F32(size) - 1) * per_level)
        sum == IF size = 0 THEN first + rest ELSE F32(first + rest)
    IN  1 + F32((F32(size) * sum) \div 2)

NoOp == [op |-> "none", button |-> "none", at |-> Point(0, 0), pos |-> Err("none"),
         result |-> "none"]

\* WorldGridManager::new is entered: build_default_hex_cell_map reserves the
\* map and inserts the central hex
BuildCentral ==
    /\ pc = "new"
    /\ map_size' = MapSize(radial_size)
    /\ cur_hex_position' = PositionDefault
    /\ hex_map' = MapInsert(hex_map, PositionDefault,
                            new_from_hex_coords(PositionDefault, HEX_RADIUS_VERTEX))
    /\ spiral' = Append(spiral, [pos |-> PositionDefault, level |-> 0])
    /\ radial_level' = 1
    /\ pc' = "ring"
    /\ UNCHANGED <<grid_radius, adjacency_vars, polygon_vars, place_vars,
                   radial_size, base_grid_mesh, directions,
                   intradirection_step, events, last_op, before_last, conv_vars, radial_vars>>

\* The head of the ring loop: translate to the starting hex of the next ring
RingEnter ==
    /\ pc = "ring"
    /\ radial_level <= radial_size
    /\ LET t == PositionTranslate(cur_hex_position,
                                  TranslationFrom(NEW_RING_START_DIRECTION), grid_radius)
       IN  IF t.ok
           THEN /\ cur_hex_position' = t.val
                /\ directions' = Provider(SideOrder, FIRST_INTRARING_DIRECTION)
                /\ intradirection_step' = 0
                /\ pc' = "walk"
           ELSE /\ pc' = "panicked"
                /\ UNCHANGED <<cur_hex_position, directions, intradirection_step>>
    /\ UNCHANGED <<grid_radius, adjacency_vars, polygon_vars, place_vars,
                   radial_size, hex_map, base_grid_mesh, map_size,
                   radial_level, spiral, events, last_op, before_last, conv_vars, radial_vars>>

\* One pass of the innermost loop: step along the current direction and
\* insert the hex reached
WalkStep ==
    /\ pc = "walk"
    /\ LET direction == Head(directions)
           t == PositionTranslate(cur_hex_position, TranslationFrom(direction), grid_radius)
           last_step == intradirection_step + 1 = radial_level
       IN  IF t.ok
           THEN /\ cur_hex_position' = t.val
                /\ hex_map' = MapInsert(hex_map, t.val,
                                        new_from_hex_coords(t.val, HEX_RADIUS_VERTEX))
                /\ spiral' = Append(spiral, [pos |-> t.val, level |-> radial_level])
                /\ intradirection_step' = IF last_step THEN 0 ELSE intradirection_step + 1
                /\ directions' = IF last_step THEN Tail(directions) ELSE directions
                /\ radial_level' = IF last_step /\ Len(directions) = 1
                                   THEN radial_level + 1 ELSE radial_level
                /\ pc' = IF last_step /\ Len(directions) = 1 THEN "ring" ELSE "walk"
           ELSE /\ pc' = "panicked"
                /\ UNCHANGED <<cur_hex_position, hex_map, spiral, intradirection_step,
                               directions, radial_level>>
    /\ UNCHANGED <<grid_radius, adjacency_vars, polygon_vars, place_vars,
                   radial_size, base_grid_mesh, map_size, events,
                   last_op, before_last, conv_vars, radial_vars>>

\* The ring loop is over: new() stores the map and updates the base mesh
BuildDone ==
    /\ pc = "ring"
    /\ radial_level > radial_size
    /\ base_grid_mesh' = update_base_mesh(hex_map)
    /\ before_last' = hex_map
    /\ pc' = "ready"
    /\ UNCHANGED <<grid_radius, adjacency_vars, polygon_vars, place_vars,
                   radial_size, hex_map, map_size, cur_hex_position,
                   radial_level, directions, intradirection_step, spiral, events,
                   last_op, conv_vars, radial_vars>>

\* The first statement of build_default_hex_cell_map alone: the capacity
\* of the map is computed from radial_size
ReserveCapacity ==
    /\ pc = "new"
    /\ map_size' = MapSize(radial_size)
    /\ pc' = "reserved"
    /\ UNCHANGED <<grid_radius, adjacency_vars, polygon_vars, place_vars, conv_vars,
                   radial_vars, radial_size, hex_map, base_grid_mesh, cur_hex_position,
                   radial_level, directions, intradirection_step, spiral, events,
                   last_op, before_last>>

\* toggle_cell_highlight reporting Ok for a position that is not in the map
toggle_cell_highlight_always_ok(map, mesh, cell_position) ==
    IF cell_position \in DOMAIN map
    THEN LET toggled == [map EXCEPT ![cell_position] = toggle_highlight(@)]
         IN  [hex_map |-> toggled, base_grid_mesh |-> update_base_mesh(toggled),
              result |-> "Ok"]
    ELSE [hex_map |-> map, base_grid_mesh |-> mesh, result |-> "Ok"]

\* toggle_cell_highlight flipping the cells next in the map along with the one found
toggle_cell_highlight_spill(map, mesh, cell_position) ==
    IF cell_position \in DOMAIN map
    THEN LET toggled == [p \in DOMAIN map |->
                            IF p.x >= cell_position.x THEN toggle_highlight(map[p]) ELSE map[p]]
         IN  [hex_map |-> toggled, base_grid_mesh |-> update_base_mesh(toggled),
              result |-> "Ok"]
    ELSE [hex_map |-> map, base_grid_mesh |-> mesh, result |-> "Err"]

\* WorldGridManager::toggle_cell_highlight: the map, the mesh and the result
toggle_cell_highlight(map, mesh, cell_position) ==
    IF cell_position \in DOMAIN map
    THEN LET toggled == [map EXCEPT ![cell_position] = toggle_highlight(@)]
         IN  [hex_map |-> toggled, base_grid_mesh |-> update_base_mesh(toggled),
              result |-> "Ok"]
    ELSE [hex_map |-> map, base_grid_mesh |-> mesh, result |-> "Err"]

\* Positions a caller can construct under the context and hand to
\* toggle_cell_highlight
CallPositions(radius) == Disk(radius)

\* A call of toggle_cell_highlight by the owner of the manager
ToggleCall(cell_position) ==
    /\ pc = "ready"
    /\ events < MaxEvents
    /\ LET t == toggle_cell_highlight(hex_map, base_grid_mesh, cell_position)
       IN  /\ hex_map' = t.hex_map
           /\ base_grid_mesh' = t.base_grid_mesh
           /\ last_op' = [op |-> "toggle_cell_highlight", button |-> "none",
                          at |-> Point(0, 0), pos |-> Ok(cell_position),
                          result |-> t.result]
    /\ before_last' = hex_map
    /\ events' = events + 1
    /\ UNCHANGED <<grid_radius, adjacency_vars, polygon_vars, place_vars,
                   radial_size, map_size, pc, cur_hex_position,
                   radial_level, directions, intradirection_step, spiral, conv_vars, radial_vars>>

MouseButtons == {"Left", "Right"}

\* Offsets, in pixels, of the clicked points from the center of a cell
ClickOffsets == {<<7, -5>>}

\* Pixels the host reports clicks at: points in the cells in and around the
\* disk the context allows
ClickPixels(radius) ==
    {Point(hex_to_pixel_coords(c).x + ToF(o[1]), hex_to_pixel_coords(c).y + ToF(o[2])) :
        c \in Disk(radius + 1), o \in ClickOffsets}

\* mouse_button_down_event unwrapping the result of the pixel conversion
mouse_button_down_event_unwrap(map, mesh, button, event_coords, radius) ==
    IF button = "Left"
    THEN LET r == pixel_to_hex_coords(event_coords, radius)
             t == toggle_cell_highlight(map, mesh, r.val)
         IN  IF r.ok
             THEN [hex_map |-> t.hex_map, base_grid_mesh |-> t.base_grid_mesh, pos |-> r,
                   result |-> IF t.result = "Ok" THEN "Ok" ELSE "panic"]
             ELSE [hex_map |-> map, base_grid_mesh |-> mesh, pos |-> r, result |-> "panic"]
    ELSE [hex_map |-> map, base_grid_mesh |-> mesh, pos |-> Err("none"), result |-> "Ok"]

\* SandCastingGameState::mouse_button_down_event: the map, the mesh, the
\* converted position and how the handler ends ("Ok": returns, "panic": the
\* unwrap of toggle_cell_highlight aborts)
mouse_button_down_event(map, mesh, button, event_coords, radius) ==
    IF button = "Left"
    THEN LET r == pixel_to_hex_coords(event_coords, radius)
             t == toggle_cell_highlight(map, mesh, r.val)
         IN  IF r.ok
             THEN [hex_map |-> t.hex_map, base_grid_mesh |-> t.base_grid_mesh, pos |-> r,
                   result |-> IF t.result = "Ok" THEN "Ok" ELSE "panic"]
             ELSE [hex_map |-> map, base_grid_mesh |-> mesh, pos |-> r, result |-> "Ok"]
    ELSE [hex_map |-> map, base_grid_mesh |-> mesh, pos |-> Err("none"), result |-> "Ok"]

\* The host reports a press of `button` at `event_coords`
MouseButtonDown(button, event_coords) ==
    /\ pc = "ready"
    /\ events < MaxEvents
    /\ LET e == mouse_button_down_event(hex_map, base_grid_mesh, button, event_coords,
                                        grid_radius)
       IN  /\ hex_map' = e.hex_map
           /\ base_grid_mesh' = e.base_grid_mesh
           /\ pc' = IF e.result = "panic" THEN "panicked" ELSE pc
           /\ last_op' = [op |-> "mouse_button_down_event", button |-> button,
                          at |-> event_coords, pos |-> e.pos, result |-> e.result]
    /\ before_last' = hex_map
    /\ events' = events + 1
    /\ UNCHANGED <<grid_radius, adjacency_vars, polygon_vars, place_vars,
                   radial_size, map_size, cur_hex_position,
                   radial_level, directions, intradirection_step, spiral, conv_vars,
                   radial_vars>>

(***************************************************************************)
(* Conversion runs: hex_to_pixel_coords and pixel_to_hex_coords            *)
(***************************************************************************)
\* Pixels handed to pixel_to_hex_coords: a lattice over the disk and its surroundings
ConvPixels(radius) ==
    LET span == ((radius + 1) * 50) \div ConvStep
    IN  {Point(WindowSize.x \div 2 + ToF(i * ConvStep), WindowSize.y \div 2 + ToF(j * ConvStep)) :
            i \in -span..span, j \in -span..span}

\* hex_to_pixel_coords is applied to a coordinate of the disk
ConvHexToPixel(c) ==
    /\ conv_pc = "idle"
    /\ hex_pos' = Ok(c)
    /\ cart_coords' = hex_to_pixel_coords(c)
    /\ conv_pc' = "pixel"
    /\ UNCHANGED <<grid_radius, adjacency_vars, polygon_vars, place_vars,
                   registry_vars, conv_result, hit_cell,
                   radial_vars>>

\* A pixel point comes from the host
ConvPixelInput(p) ==
    /\ conv_pc = "idle"
    /\ cart_coords' = p
    /\ conv_pc' = "pixel"
    /\ UNCHANGED <<grid_radius, adjacency_vars, polygon_vars, place_vars,
                   registry_vars, hex_pos, conv_result, hit_cell,
                   radial_vars>>

\* Pixels strictly inside the hexagon of a cell: the centroid, the eight
\* points one pixel away from it, and the points nine tenths of the way from
\* the centroid to each vertex and to the middle of each side
InsidePixels(c) ==
    LET cell == new_from_hex_coords(c, HEX_RADIUS_VERTEX)
        o == cell.center
        Towards(q) == Point(o.x + RoundDiv(9 * (q.x - o.x), 10),
                            o.y + RoundDiv(9 * (q.y - o.y), 10))
        Middle(i) == Point(RoundDiv(cell.vertices[i].x + cell.vertices[(i % 6) + 1].x, 2),
                           RoundDiv(cell.vertices[i].y + cell.vertices[(i % 6) + 1].y, 2))
    IN  {Point(o.x + ToF(dx), o.y + ToF(dy)) : dx \in -1..1, dy \in -1..1}
            \cup {Towards(cell.vertices[i]) : i \in 1..6}
            \cup {Towards(Middle(i)) : i \in 1..6}

\* A pixel point inside the hexagon of a cell of the disk comes from the host
ConvPixelInside(c, p) ==
    /\ conv_pc = "idle"
    /\ hit_cell' = Ok(c)
    /\ cart_coords' = p
    /\ conv_pc' = "pixel"
    /\ UNCHANGED <<grid_radius, adjacency_vars, polygon_vars, place_vars,
                   registry_vars, hex_pos, conv_result,
                   radial_vars>>

\* pixel_to_hex_coords is applied to the pixel point
ConvPixelToHex ==
    /\ conv_pc = "pixel"
    /\ conv_result' = pixel_to_hex_coords(cart_coords, grid_radius)
    /\ conv_pc' = "done"
    /\ UNCHANGED <<grid_radius, adjacency_vars, polygon_vars, place_vars,
                   registry_vars, hex_pos, cart_coords, hit_cell,
                   radial_vars>>

(***************************************************************************)
(* Radial expansion: HexGridCell::add_radials_to_mesh                      *)
(***************************************************************************)
\* Centers of the cells add_radials_to_mesh is called on
RadialCenters == {hex_to_pixel_coords(c) : c \in Disk(1)}

\* Alpha of the fill colors it is called with
RadialAlphas == {SCALE, SCALE \div 2, 150}

\* The entry of mesh_builder for one cell added with add_to_mesh
Added(hex_cell, fill_alpha, lvl, i, j) ==
    [cell |-> hex_cell, alpha |-> fill_alpha, level |-> lvl, i |-> i, j |-> j]

\* The interstitial direction turned by PI/3 instead of 4*PI/6
inter_hex_theta_outward(adj_theta) == adj_theta + 2

\* The direction from a primary cell to its interstitial cells:
\* `adj_theta + 4.0*PI/6.0`, in units of PI/6
inter_hex_theta(adj_theta) == adj_theta + 4

\* The interstitial loop running over 0..=level
InterstitialCount_inclusive(lvl) == lvl + 1

\* The number of passes of the interstitial loop `for j in 0..level`
InterstitialCount(lvl) == lvl

\* The vertices taken clockwise from East
direction_provider_clockwise ==
    [i \in 1..6 |-> VertexOrder[((6 - (i - 1)) % 6) + 1]]

\* direction_provider: `hex_directions::Provider::new(hex_directions::Vertex::EAST)`
direction_provider == Provider(VertexOrder, "EAST")

\* add_radials_to_mesh is called
RadialStart ==
    /\ rad_pc = "idle"
    /\ \E center \in RadialCenters, alpha \in RadialAlphas, radius \in 0..MaxRadialRadius,
          has_gradient \in BOOLEAN :
            /\ rad_args' = [center |-> center, alpha |-> alpha, radius |-> radius,
                            has_gradient |-> has_gradient]
            /\ cur_fill_alpha' = alpha
    /\ level' = 0
    /\ rad_pc' = "level"
    /\ UNCHANGED <<grid_radius, adjacency_vars, polygon_vars, place_vars,
                   registry_vars, conv_vars, radial_vertices, rad_directions,
                   rad_i, rad_j, mesh_builder>>

\* The head of the level loop
RadialLevel ==
    /\ rad_pc = "level"
    /\ IF level < rad_args.radius
       THEN /\ rad_directions' = direction_provider
            /\ rad_i' = 0
            /\ rad_pc' = "vertex"
       ELSE /\ rad_pc' = "done"
            /\ UNCHANGED <<rad_directions, rad_i>>
    /\ UNCHANGED <<grid_radius, adjacency_vars, polygon_vars, place_vars,
                   registry_vars, conv_vars, rad_args, cur_fill_alpha,
                   radial_vertices, level, rad_j, mesh_builder>>

\* The body of the direction loop up to the interstitial loop: the hex cell
\* at the inflated vertex
RadialVertex ==
    /\ rad_pc = "vertex"
    /\ LET vertex == Head(rad_directions)
           adj_theta == VertexAngle(vertex) + 1
           origin_centerpoint == rad_args.center
           x0 == origin_centerpoint.x + FMul(HEX_RADIUS_SIDE * 2, FCos(adj_theta))
           y0 == origin_centerpoint.y - FMul(HEX_RADIUS_SIDE * 2, FSin(adj_theta))
           x1 == x0 + FMul(HEX_RADIUS_SIDE * 2, FCos(adj_theta)) * level
           y1 == y0 - FMul(HEX_RADIUS_SIDE * 2, FSin(adj_theta)) * level
           vert_hex == new_from_pixel_coords(Point(x1, y1), HEX_RADIUS_VERTEX)
       IN  /\ radial_vertices' = [radial_vertices EXCEPT ![rad_i + 1] = Point(x1, y1)]
           /\ mesh_builder' = Append(mesh_builder,
                                     Added(vert_hex, cur_fill_alpha, level, rad_i, 0))
    /\ rad_j' = 0
    /\ rad_pc' = "inter"
    /\ UNCHANGED <<grid_radius, adjacency_vars, polygon_vars, place_vars,
                   registry_vars, conv_vars, rad_args, cur_fill_alpha,
                   level, rad_directions, rad_i>>

\* One pass of the interstitial loop, or its end: the next direction, and
\* after the last direction the end of the level with its alpha reduction
RadialInter ==
    /\ rad_pc = "inter"
    /\ IF rad_j < InterstitialCount(level)
       THEN LET adj_theta == VertexAngle(Head(rad_directions)) + 1
                theta == inter_hex_theta(adj_theta)
                inter_hex_center ==
                    Point(radial_vertices[rad_i + 1].x
                            + FMul(HEX_RADIUS_SIDE * 2, FCos(theta)) * (rad_j + 1),
                          radial_vertices[rad_i + 1].y
                            - FMul(HEX_RADIUS_SIDE * 2, FSin(theta)) * (rad_j + 1))
                inter_hex == new_from_pixel_coords(inter_hex_center, HEX_RADIUS_VERTEX)
            IN  /\ mesh_builder' = Append(mesh_builder,
                                          Added(inter_hex, cur_fill_alpha, level, rad_i,
                                                rad_j + 1))
                /\ rad_j' = rad_j + 1
                /\ UNCHANGED <<rad_pc, rad_directions, rad_i, level, cur_fill_alpha>>
       ELSE /\ rad_directions' = Tail(rad_directions)
            /\ rad_i' = rad_i + 1
            /\ IF Len(rad_directions) = 1
               THEN /\ cur_fill_alpha' =
                        IF rad_args.has_gradient /\ cur_fill_alpha > MIN_ALPHA_VAL
                        THEN cur_fill_alpha - FDiv(ToF(1), ToF(rad_args.radius))
                        ELSE cur_fill_alpha
                    /\ level' = level + 1
                    /\ rad_pc' = "level"
               ELSE /\ rad_pc' = "vertex"
                    /\ UNCHANGED <<cur_fill_alpha, level>>
            /\ UNCHANGED <<mesh_builder, rad_j>>
    /\ UNCHANGED <<grid_radius, adjacency_vars, polygon_vars, place_vars,
                   registry_vars, conv_vars, rad_args, radial_vertices>>

(***************************************************************************)
(* Obstacle overlay: ObstacleManager::update_obstacle_mesh                 *)
(***************************************************************************)
\* `*prev_obstacle_coords - *obstacle_coords`: the translation between two cells
PositionSub(a, b) == Pos(a.x - b.x, a.y - b.y, a.z - b.z)

\* The side of a coords delta, with the rows of two sides exchanged
SideFromTranslation_swapped(delta) ==
    CASE delta = Pos(1, 0, -1) -> Ok("SOUTHEAST")
      [] delta = Pos(0, 1, -1) -> Ok("NORTH")
      [] delta = Pos(-1, 1, 0) -> Ok("NORTHWEST")
      [] delta = Pos(-1, 0, 1) -> Ok("SOUTHWEST")
      [] delta = Pos(0, -1, 1) -> Ok("SOUTH")
      [] delta = Pos(1, -1, 0) -> Ok("NORTHEAST")
      [] OTHER -> Err("panic")

\* The side of a coords delta: the match of update_obstacle_mesh, whose
\* last arm is panic!("Invalid coords delta")
SideFromTranslation(delta) ==
    CASE delta = Pos(1, 0, -1) -> Ok("NORTHEAST")
      [] delta = Pos(0, 1, -1) -> Ok("NORTH")
      [] delta = Pos(-1, 1, 0) -> Ok("NORTHWEST")
      [] delta = Pos(-1, 0, 1) -> Ok("SOUTHWEST")
      [] delta = Pos(0, -1, 1) -> Ok("SOUTH")
      [] delta = Pos(1, -1, 0) -> Ok("SOUTHEAST")
      [] OTHER -> Err("panic")

\* hex_directions::Side::get_adjacent_vertices: the two vertices of a side,
\* in counter-clockwise order
get_adjacent_vertices(s) ==
    CASE s = "NORTH" -> <<"NORTHEAST", "NORTHWEST">>
      [] s = "NORTHWEST" -> <<"NORTHWEST", "WEST">>
      [] s = "SOUTHWEST" -> <<"WEST", "SOUTHWEST">>
      [] s = "SOUTH" -> <<"SOUTHWEST", "SOUTHEAST">>
      [] s = "SOUTHEAST" -> <<"SOUTHEAST", "EAST">>
      [] s = "NORTHEAST" -> <<"EAST", "NORTHEAST">>

\* usize::from(vertex), as an index of the sequence of a cell's vertices
VertexIndex(v) == IndexIn(VertexOrder, v)

\* The body of update_obstacle_mesh for a cell with a previous cell, the
\* delta taken from the cell to the previous one
shared_line_from_cur(prev_obstacle_coords, obstacle_coords) ==
    LET cur_hex == new_from_hex_coords(obstacle_coords, HEX_RADIUS_VERTEX)
        direction == SideFromTranslation(PositionSub(obstacle_coords, prev_obstacle_coords))
    IN  IF direction.ok
        THEN Ok([direction |-> direction.val,
                 shared_line |->
                     <<cur_hex.vertices[VertexIndex(get_adjacent_vertices(direction.val)[1])],
                       cur_hex.vertices[VertexIndex(get_adjacent_vertices(direction.val)[2])]>>])
        ELSE direction

\* The body of update_obstacle_mesh for a cell with a previous cell: the
\* direction of the previous cell and the line over the side of the cell's
\* hex in that direction
shared_line(prev_obstacle_coords, obstacle_coords) ==
    LET cur_hex == new_from_hex_coords(obstacle_coords, HEX_RADIUS_VERTEX)
        direction == SideFromTranslation(PositionSub(prev_obstacle_coords, obstacle_coords))
    IN  IF direction.ok
        THEN Ok([direction |-> direction.val,
                 shared_line |->
                     <<cur_hex.vertices[VertexIndex(get_adjacent_vertices(direction.val)[1])],
                       cur_hex.vertices[VertexIndex(get_adjacent_vertices(direction.val)[2])]>>])
        ELSE direction

\* update_obstacle_mesh reaches a cell of an obstacle that has a previous cell
ConnectObstacleCells ==
    /\ adj_pc = "idle"
    /\ adj_result' = shared_line(adj_prev, adj_cur)
    /\ adj_pc' = IF adj_result'.ok THEN "done" ELSE "panicked"
    /\ UNCHANGED <<grid_radius, registry_vars, conv_vars, radial_vars, polygon_vars,
                   place_vars, adj_prev, adj_cur>>

(***************************************************************************)
(* Cell polygon: HexGridCell::new_from_pixel_coords                        *)
(***************************************************************************)
\* new_from_pixel_coords is applied to a center and a radius
NewFromPixelCoords ==
    /\ poly_pc = "idle"
    /\ poly_cell' = Ok(new_from_pixel_coords(poly_center, poly_radius))
    /\ poly_pc' = "done"
    /\ UNCHANGED <<grid_radius, registry_vars, conv_vars, radial_vars, adjacency_vars,
                   place_vars, poly_center, poly_radius>>

(***************************************************************************)
(* Placed entities: ActorManager, ObstacleManager, ResourceManager and     *)
(* the first-frame initialization of SandCastingGameState                  *)
(***************************************************************************)
\* The number of instances of each kind initialize asks for: `for _i in 0..3`
INIT_INSTANCES == 3

\* The kinds of placed entities, in the order initialize creates them
Kinds == <<"resources", "obstacles", "actors">>

\* The cells random instances are made of: Randomizable::rand(ci_ctx) stays
\* within the grid radius of the context
RandCells(radius) == Disk(radius) \cap {PositionDefault, Pos(1, 0, -1), Pos(0, 1, -1)}

\* The radius of the random resource at a cell: the largest at the origin,
\* none elsewhere
RandRadius(c) == IF c = PositionDefault THEN MaxResourceRadius ELSE 0

\* Instance::rand(ci_ctx) for each kind: an actor is its origin, a resource
\* its coords and radius, an obstacle the cells of its path, each next to
\* the one before
RandInstances(kind, radius) ==
    CASE kind = "actors" -> RandCells(radius)
      [] kind = "resources" ->
            {[coords |-> c, radius |-> RandRadius(c)] : c \in RandCells(radius)}
      [] kind = "obstacles" ->
            {<<c>> : c \in RandCells(radius)}
                \cup {p \in RandCells(radius) \X RandCells(radius) :
                         AxisMax(PositionSub(p[1], p[2])) = 1}

\* Plottable::origin of an instance
origin(kind, instance) ==
    CASE kind = "actors" -> instance
      [] kind = "resources" -> instance.coords
      [] kind = "obstacles" -> instance[1]

\* add_instance taking the cells within the radius of a resource as occupied
add_instance_reserving(kind, instances, new_instance) ==
    LET coords_occupied ==
            \E i \in 1..Len(instances) :
                IF kind = "resources"
                THEN AxisMax(PositionSub(origin(kind, new_instance), instances[i].coords))
                         <= instances[i].radius
                ELSE origin(kind, new_instance) = origin(kind, instances[i])
    IN  IF ~coords_occupied
        THEN [instances |-> Append(instances, new_instance), result |-> "Ok"]
        ELSE [instances |-> instances, result |-> "Err"]

\* add_instance putting the new instance in front of the others
add_instance_front(kind, instances, new_instance) ==
    LET coords_occupied ==
            \E i \in 1..Len(instances) :
                origin(kind, new_instance) = origin(kind, instances[i])
    IN  IF ~coords_occupied
        THEN [instances |-> <<new_instance>> \o instances, result |-> "Ok"]
        ELSE [instances |-> instances, result |-> "Err"]

\* DrawableMechanic::add_instance (and ResourceManager::add_resource): the
\* instances and the result
add_instance(kind, instances, new_instance) ==
    LET coords_occupied ==
            \E i \in 1..Len(instances) :
                origin(kind, new_instance) = origin(kind, instances[i])
    IN  IF ~coords_occupied
        THEN [instances |-> Append(instances, new_instance), result |-> "Ok"]
        ELSE [instances |-> instances, result |-> "Err"]

\* add_obstacle comparing the first cells of the paths only
add_obstacle_origin_only(existing, new_obstacle) ==
    LET coords_occupied ==
            \E i \in 1..Len(existing) : new_obstacle[1] = existing[i][1]
    IN  IF ~coords_occupied
        THEN [instances |-> Append(existing, new_obstacle), result |-> "Ok"]
        ELSE [instances |-> existing, result |-> "Err"]

\* ObstacleManager::add_obstacle: the obstacles and the result
add_obstacle(existing, new_obstacle) ==
    LET coords_occupied ==
            \E i \in 1..Len(existing) : \E k \in 1..Len(existing[i]) :
                \E n \in 1..Len(new_obstacle) : new_obstacle[n] = existing[i][k]
    IN  IF ~coords_occupied
        THEN [instances |-> Append(existing, new_obstacle), result |-> "Ok"]
        ELSE [instances |-> existing, result |-> "Err"]

\* The placing function of the manager of a kind
try_add(kind, instances, new_instance) ==
    IF kind = "obstacles"
    THEN add_obstacle(instances, new_instance)
    ELSE add_instance(kind, instances, new_instance)

\* update_obstacle_mesh: for each obstacle its cells and the lines between
\* consecutive cells
ObstacleMeshOf(all_obstacles) ==
    [i \in 1..Len(all_obstacles) |->
        [cells |-> all_obstacles[i],
         lines |-> [k \in 1..(Len(all_obstacles[i]) - 1) |->
                       shared_line(all_obstacles[i][k], all_obstacles[i][k + 1])]]]

\* update_obstacle_mesh aborts on a pair of cells without a side between them
ObstacleMeshPanics(all_obstacles) ==
    \E i \in 1..Len(all_obstacles) : \E k \in 1..(Len(all_obstacles[i]) - 1) :
        ~shared_line(all_obstacles[i][k], all_obstacles[i][k + 1]).ok

\* DrawableMechanic::update_mesh, ObstacleManager::update_obstacle_mesh:
\* the mesh of a kind after its instances changed
update_mesh(kind, instances, mesh) ==
    IF instances = << >>
    THEN mesh
    ELSE IF kind = "obstacles" THEN ObstacleMeshOf(instances) ELSE instances

\* The instances of a kind
InstancesOf(kind) ==
    CASE kind = "actors" -> actors
      [] kind = "resources" -> resources
      [] kind = "obstacles" -> obstacles

\* The placed entities of all managers
Placed == [actors |-> actors, obstacles |-> obstacles, resources |-> resources]

\* The post-loop result of add_rand_instance, without the comparison
RandResultOf_ok(n, max) == "Ok"

\* The result of add_rand_instance after its loop: Err if attempts maxed out
RandResultOf(n, max) == IF n = max THEN "Err" ELSE "Ok"

\* update calling initialize whatever the flag says
needs_initialize_always(flag) == TRUE

\* update: `if !self.initialized()`
needs_initialize(flag) == ~flag

\* update is called for the first frame: initialize starts
UpdateFirst ==
    /\ game_pc = "new"
    /\ needs_initialize(initialized)
    /\ game_pc' = "initialize"
    /\ init_phase' = 1
    /\ init_i' = 0
    /\ UNCHANGED <<grid_radius, registry_vars, conv_vars, radial_vars, adjacency_vars,
                   polygon_vars, ci_max_rand_attempts, initialized, actors, obstacles,
                   resources, meshes, rand_pc, attempts, updates, place_last, place_before,
                   rand_calls, rand_added, rand_result>>

\* initialize calls add_rand_instance of the manager of the current loop
AddRandInstanceCall ==
    /\ game_pc = "initialize"
    /\ rand_pc = "idle"
    /\ init_i < INIT_INSTANCES
    /\ rand_pc' = "loop"
    /\ attempts' = 0
    /\ rand_calls' = 0
    /\ rand_added' = 0
    /\ rand_result' = "none"
    /\ UNCHANGED <<grid_radius, registry_vars, conv_vars, radial_vars, adjacency_vars,
                   polygon_vars, ci_max_rand_attempts, initialized, actors, obstacles,
                   resources, meshes, game_pc, init_phase, init_i, updates, place_last,
                   place_before>>

\* What initialize does with the result of add_rand_instance: unwrap
AfterAddRand(result) ==
    IF result = "Ok"
    THEN /\ init_i' = init_i + 1
         /\ game_pc' = game_pc
    ELSE /\ game_pc' = "panicked"
         /\ init_i' = init_i

\* One pass of the loop of add_rand_instance: a random instance is handed
\* to add_instance; on Ok the loop is left and add_rand_instance returns
RandAttempt(kind, rand_instance) ==
    LET r == try_add(kind, InstancesOf(kind), rand_instance)
        mesh == update_mesh(kind, r.instances, meshes[kind])
    IN  /\ place_before' = Placed
        /\ place_last' = [kind |-> kind, instance |-> rand_instance, result |-> r.result]
        /\ rand_calls' = rand_calls + 1
        /\ actors' = IF kind = "actors" THEN r.instances ELSE actors
        /\ obstacles' = IF kind = "obstacles" THEN r.instances ELSE obstacles
        /\ resources' = IF kind = "resources" THEN r.instances ELSE resources
        /\ IF r.result = "Ok"
           THEN /\ meshes' = [meshes EXCEPT ![kind] = mesh]
                /\ rand_added' = rand_added + 1
                /\ attempts' = attempts
                /\ rand_pc' = "idle"
                /\ rand_result' = RandResultOf(attempts, ci_max_rand_attempts)
                /\ IF kind = "obstacles" /\ ObstacleMeshPanics(r.instances)
                   THEN game_pc' = "panicked" /\ init_i' = init_i
                   ELSE AfterAddRand(rand_result')
           ELSE /\ attempts' = attempts + 1
                /\ UNCHANGED <<meshes, rand_added, rand_pc, rand_result, game_pc, init_i>>
        /\ UNCHANGED <<grid_radius, registry_vars, conv_vars, radial_vars, adjacency_vars,
                       polygon_vars, ci_max_rand_attempts, initialized, init_phase, updates>>

AddRandInstanceAttempt ==
    /\ game_pc = "initialize"
    /\ rand_pc = "loop"
    /\ attempts < ci_max_rand_attempts
    /\ \E rand_instance \in RandInstances(Kinds[init_phase], grid_radius) :
           RandAttempt(Kinds[init_phase], rand_instance)

\* The loop of add_rand_instance ends without an instance added
AddRandInstanceExhausted ==
    /\ game_pc = "initialize"
    /\ rand_pc = "loop"
    /\ ~(attempts < ci_max_rand_attempts)
    /\ rand_pc' = "idle"
    /\ rand_result' = RandResultOf(attempts, ci_max_rand_attempts)
    /\ AfterAddRand(rand_result')
    /\ UNCHANGED <<grid_radius, registry_vars, conv_vars, radial_vars, adjacency_vars,
                   polygon_vars, ci_max_rand_attempts, initialized, actors, obstacles,
                   resources, meshes, init_phase, attempts, updates, place_last,
                   place_before, rand_calls, rand_added>>

\* A loop of initialize ends: the next loop starts, or initialize returns
InitLoopEnd ==
    /\ game_pc = "initialize"
    /\ rand_pc = "idle"
    /\ init_i = INIT_INSTANCES
    /\ IF init_phase < Len(Kinds)
       THEN /\ init_phase' = init_phase + 1
            /\ init_i' = 0
            /\ UNCHANGED <<initialized, game_pc>>
       ELSE /\ initialized' = TRUE
            /\ game_pc' = "running"
            /\ UNCHANGED <<init_phase, init_i>>
    /\ UNCHANGED <<grid_radius, registry_vars, conv_vars, radial_vars, adjacency_vars,
                   polygon_vars, ci_max_rand_attempts, actors, obstacles, resources, meshes,
                   rand_pc, attempts, updates, place_last, place_before, rand_calls,
                   rand_added, rand_result>>

\* update is called after the first frame: initialize is not called again
UpdateLater ==
    /\ game_pc = "running"
    /\ updates < MaxUpdates
    /\ updates' = updates + 1
    /\ IF needs_initialize(initialized)
       THEN /\ game_pc' = "initialize"
            /\ init_phase' = 1
            /\ init_i' = 0
       ELSE UNCHANGED <<game_pc, init_phase, init_i>>
    /\ UNCHANGED <<grid_radius, registry_vars, conv_vars, radial_vars, adjacency_vars,
                   polygon_vars, ci_max_rand_attempts, initialized, actors, obstacles,
                   resources, meshes, rand_pc, attempts,
                   place_last, place_before, rand_calls, rand_added, rand_result>>

\* draw, mouse_button_down_event or key_down_event is called: the handlers
\* draw the meshes, toggle a highlight of the world grid or the debug
\* display, and leave the managers of the placed entities and the
\* initialized flag alone; input events can come before the first update
DrawOrInputEvent ==
    /\ game_pc \in {"new", "running"}
    /\ game_pc = "new" => updates = 0
    /\ updates < MaxUpdates
    /\ updates' = updates + 1
    /\ UNCHANGED <<grid_radius, registry_vars, conv_vars, radial_vars, adjacency_vars,
                   polygon_vars, ci_max_rand_attempts, initialized, actors, obstacles,
                   resources, meshes, game_pc, init_phase, init_i, rand_pc, attempts,
                   place_last, place_before, rand_calls, rand_added, rand_result>>

(***************************************************************************)
(* Initial states and specifications                                       *)
(***************************************************************************)
InitRegistry ==
    /\ hex_map = << >>
    /\ base_grid_mesh = PlaceholderMesh
    /\ map_size = 0
    /\ pc = "new"
    /\ cur_hex_position = PositionDefault
    /\ radial_level = 0
    /\ directions = << >>
    /\ intradirection_step = 0
    /\ spiral = << >>
    /\ events = 0
    /\ last_op = NoOp
    /\ before_last = << >>

InitConv ==
    /\ hex_pos = Err("none")
    /\ cart_coords = Point(0, 0)
    /\ conv_result = Err("none")
    /\ conv_pc = "idle"
    /\ hit_cell = Err("none")

InitRadial ==
    /\ rad_pc = "idle"
    /\ rad_args = [center |-> Point(0, 0), alpha |-> 0, radius |-> 0, has_gradient |-> FALSE]
    /\ cur_fill_alpha = 0
    /\ radial_vertices = [i \in 1..6 |-> Point(0, 0)]
    /\ level = 0
    /\ rad_directions = << >>
    /\ rad_i = 0
    /\ rad_j = 0
    /\ mesh_builder = << >>

InitAdjacency ==
    /\ adj_prev = PositionDefault
    /\ adj_cur = PositionDefault
    /\ adj_result = Err("none")
    /\ adj_pc = "idle"

InitPolygon ==
    /\ poly_center = Point(0, 0)
    /\ poly_radius = HEX_RADIUS_VERTEX
    /\ poly_cell = Err("none")
    /\ poly_pc = "idle"

\* The placeholder line each manager's mesh starts as
PlaceholderLine == <<"line">>

InitPlace ==
    /\ initialized = FALSE
    /\ actors = << >>
    /\ obstacles = << >>
    /\ resources = << >>
    /\ meshes = [actors |-> PlaceholderLine, obstacles |-> PlaceholderLine,
                 resources |-> PlaceholderLine]
    /\ game_pc = "new"
    /\ init_phase = 1
    /\ init_i = 0
    /\ rand_pc = "idle"
    /\ attempts = 0
    /\ updates = 0
    /\ place_last = [kind |-> "none", instance |-> << >>, result |-> "none"]
    /\ place_before = [actors |-> << >>, obstacles |-> << >>, resources |-> << >>]
    /\ rand_calls = 0
    /\ rand_added = 0
    /\ rand_result = "none"

\* The game: a registry is constructed and host events act on it
\* The owner of the manager calls toggle_cell_highlight
HostToggleCall ==
    /\ pc = "ready"
    /\ events < MaxEvents
    /\ \E c \in CallPositions(grid_radius) : ToggleCall(c)

\* The host reports a mouse button press
HostMouseButtonDown ==
    /\ pc = "ready"
    /\ events < MaxEvents
    /\ \E button \in MouseButtons, p \in ClickPixels(grid_radius) : MouseButtonDown(button, p)

Init ==
    /\ radial_size \in 0..MaxRadius
    /\ grid_radius \in 0..MaxGridRadius
    /\ InitRegistry
    /\ InitConv
    /\ InitRadial
    /\ InitAdjacency
    /\ InitPolygon
    /\ ci_max_rand_attempts = 0
    /\ InitPlace

Next ==
    \/ BuildCentral
    \/ RingEnter
    \/ WalkStep
    \/ BuildDone
    \/ HostToggleCall
    \/ HostMouseButtonDown

Spec == Init /\ [][Next]_vars

\* Construction runs: WorldGridManager::new alone, over larger radii
InitBuild ==
    /\ radial_size \in 0..MaxBuildRadius
    /\ grid_radius \in 0..(2 * MaxBuildRadius)
    /\ InitRegistry
    /\ InitConv
    /\ InitRadial
    /\ InitAdjacency
    /\ InitPolygon
    /\ ci_max_rand_attempts = 0
    /\ InitPlace

NextBuild ==
    \/ BuildCentral
    \/ RingEnter
    \/ WalkStep
    \/ BuildDone

SpecBuild == InitBuild /\ [][NextBuild]_vars

\* Capacity runs: the map_size computation alone, over the small radii and
\* over radii around the first one whose product is not an f32
CapRadii == (0..MaxCapRadius) \cup {3340 + k : k \in 0..MaxCapRadius}

InitCapacity ==
    /\ radial_size \in CapRadii
    /\ grid_radius = radial_size
    /\ InitRegistry
    /\ InitConv
    /\ InitRadial
    /\ InitAdjacency
    /\ InitPolygon
    /\ ci_max_rand_attempts = 0
    /\ InitPlace

NextCapacity == ReserveCapacity

SpecCapacity == InitCapacity /\ [][NextCapacity]_vars

\* Conversion runs
ConvFromHex ==
    /\ conv_pc = "idle"
    /\ \E c \in Disk(grid_radius) : ConvHexToPixel(c)

ConvFromPixel ==
    /\ conv_pc = "idle"
    /\ \E p \in ConvPixels(grid_radius) : ConvPixelInput(p)

ConvInside ==
    /\ conv_pc = "idle"
    /\ \E c \in Disk(grid_radius) : \E p \in InsidePixels(c) : ConvPixelInside(c, p)

InitConvRun ==
    /\ grid_radius \in 0..MaxConvRadius
    /\ radial_size = grid_radius
    /\ InitRegistry
    /\ InitConv
    /\ InitRadial
    /\ InitAdjacency
    /\ InitPolygon
    /\ ci_max_rand_attempts = 0
    /\ InitPlace

NextConv ==
    \/ ConvFromHex
    \/ ConvFromPixel
    \/ ConvInside
    \/ ConvPixelToHex

SpecConv == InitConvRun /\ [][NextConv]_vars

\* Radial expansion runs
InitRadialRun ==
    /\ grid_radius = 0
    /\ radial_size = 0
    /\ InitRegistry
    /\ InitConv
    /\ InitRadial
    /\ InitAdjacency
    /\ InitPolygon
    /\ ci_max_rand_attempts = 0
    /\ InitPlace

NextRadial ==
    \/ RadialStart
    \/ RadialLevel
    \/ RadialVertex
    \/ RadialInter

SpecRadial == InitRadialRun /\ [][NextRadial]_vars

\* Obstacle overlay runs: two consecutive cells of an obstacle
InitAdjacencyRun ==
    /\ grid_radius = MaxAdjRadius
    /\ radial_size = MaxAdjRadius
    /\ InitRegistry
    /\ InitConv
    /\ InitRadial
    /\ adj_prev \in Disk(MaxAdjRadius)
    /\ adj_cur \in Disk(MaxAdjRadius)
    /\ adj_result = Err("none")
    /\ adj_pc = "idle"
    /\ InitPolygon
    /\ ci_max_rand_attempts = 0
    /\ InitPlace

NextAdjacency == ConnectObstacleCells

SpecAdjacency == InitAdjacencyRun /\ [][NextAdjacency]_vars

\* Polygon runs: new_from_pixel_coords on centers around the window and
\* on the center (500, 500), for several radii
PolyCenters ==
    {Point(ToF(500), ToF(500))}
        \cup {Point(ToF(x * 100) + 250, ToF(y * 75) - 125) : x \in 0..8, y \in 0..8}

InitPolygonRun ==
    /\ grid_radius = 0
    /\ radial_size = 0
    /\ InitRegistry
    /\ InitConv
    /\ InitRadial
    /\ InitAdjacency
    /\ poly_center \in PolyCenters
    /\ poly_radius \in {ToF(r) : r \in 25..MaxPolyRadius} \cup {HEX_RADIUS_VERTEX \div 2}
    /\ poly_cell = Err("none")
    /\ poly_pc = "idle"
    /\ ci_max_rand_attempts = 0
    /\ InitPlace

NextPolygon == NewFromPixelCoords

SpecPolygon == InitPolygonRun /\ [][NextPolygon]_vars

\* The game with its placed entities: the first update initializes, later
\* updates follow
InitGame ==
    /\ grid_radius \in {0, MaxPlaceRadius}
    /\ radial_size = grid_radius
    /\ InitRegistry
    /\ InitConv
    /\ InitRadial
    /\ InitAdjacency
    /\ InitPolygon
    /\ ci_max_rand_attempts \in {0, MaxAttempts}
    /\ InitPlace

NextGame ==
    \/ UpdateFirst
    \/ AddRandInstanceCall
    \/ AddRandInstanceAttempt
    \/ AddRandInstanceExhausted
    \/ InitLoopEnd
    \/ UpdateLater
    \/ DrawOrInputEvent

SpecGame == InitGame /\ [][NextGame]_vars

\* The same game, every started call running on
SpecGameLive == SpecGame /\ WF_vars(NextGame)

(***************************************************************************)
(* Properties                                                              *)
(***************************************************************************)
\* Number of cells of the disk of radius R
DiskCount(R) == 1 + 3 * R * (R + 1)

\* WorldGridManager::new has returned
Constructed == pc = "ready" \/ (pc = "panicked" /\ events > 0)

\* C1: once the map is built, the ring spiral has emitted exactly
\* 1 + 3*R*(R+1) coordinates and no coordinate twice.
C1_RingSpiralCardinality ==
    pc = "ready" =>
        /\ Len(spiral) = DiskCount(radial_size)
        /\ \A i, j \in 1..Len(spiral) : i # j => spiral[i].pos # spiral[j].pos

\* C2: every coordinate emitted lies within radius R, a coordinate emitted
\* while walking ring level L has max(|x|,|y|,|z|) = L, and only the first
\* coordinate (the origin) has value 0.
C2_RingMembership ==
    \A i \in 1..Len(spiral) :
        /\ AxisMax(spiral[i].pos) <= radial_size
        /\ AxisMax(spiral[i].pos) = spiral[i].level
        /\ AxisMax(spiral[i].pos) = 0 => i = 1

\* C3: converting a coordinate of the disk to its pixel center and back
\* returns Ok of the same coordinate.
C3_PixelRoundTrip ==
    (conv_pc = "done" /\ hex_pos.ok) => conv_result = Ok(hex_pos.val)

C3_Witness ==
    /\ conv_pc = "done"
    /\ hex_pos.ok
    /\ AxisMax(hex_pos.val) = MaxConvRadius
    /\ hex_pos.val.y # 0
    /\ conv_result.ok

\* C4: in every state of a constructed registry every key is within radius
\* R, there are exactly 1 + 3*R*(R+1) keys, and the origin is a key.
C4_RegistryInvariants ==
    Constructed =>
        /\ \A p \in DOMAIN hex_map : AxisMax(p) <= radial_size
        /\ Cardinality(DOMAIN hex_map) = DiskCount(radial_size)
        /\ PositionDefault \in DOMAIN hex_map

\* A step that is a call toggle_cell_highlight(c) by the owner
IsToggleCall == events' = events + 1 /\ last_op'.op = "toggle_cell_highlight"

\* C5: toggle_cell_highlight(c) returns Ok exactly when c is a key, and then
\* the highlight flag of c is flipped; when c is not a key it returns the
\* error and the map and the mesh are unchanged.
C5_ToggleOkIffPresent ==
    [][IsToggleCall =>
        LET c == last_op'.pos.val
        IN  /\ (last_op'.result = "Ok") <=> (c \in DOMAIN hex_map)
            /\ c \in DOMAIN hex_map =>
                   /\ c \in DOMAIN hex_map'
                   /\ hex_map'[c].highlight = ~hex_map[c].highlight
            /\ c \notin DOMAIN hex_map =>
                   /\ last_op'.result = "Err"
                   /\ hex_map' = hex_map
                   /\ base_grid_mesh' = base_grid_mesh]_vars

C5_Witness ==
    /\ last_op.op = "toggle_cell_highlight"
    /\ last_op.result = "Err"
    /\ last_op.pos.val \notin DOMAIN hex_map
    /\ \E p \in DOMAIN hex_map : hex_map[p].highlight

\* The event recorded in op toggled the cell op.pos.val
Toggled(op) ==
    /\ op.result = "Ok"
    /\ op.pos.ok
    /\ \/ op.op = "toggle_cell_highlight"
       \/ op.op = "mouse_button_down_event" /\ op.button = "Left"

\* C6: when a toggle of cell c directly follows a toggle of the same cell,
\* the map is again what it was before the first of the two.
C6_HighlightIdempotence ==
    [][(events' = events + 1 /\ Toggled(last_op) /\ Toggled(last_op')
        /\ last_op'.pos = last_op.pos)
       => hex_map' = before_last]_vars

C6_Witness ==
    /\ events = 2
    /\ last_op.op = "toggle_cell_highlight"
    /\ last_op.result = "Ok"
    /\ last_op.pos.val # PositionDefault
    /\ hex_map # before_last
    /\ \A p \in DOMAIN hex_map : ~hex_map[p].highlight

\* C7: after construction the key set, the centers and the vertices never
\* change, and a toggle_cell_highlight(c) call changes the highlight flag of
\* no cell other than c.
C7_ToggleFrame ==
    [][Constructed =>
        /\ DOMAIN hex_map' = DOMAIN hex_map
        /\ \A p \in DOMAIN hex_map :
               /\ hex_map'[p].center = hex_map[p].center
               /\ hex_map'[p].vertices = hex_map[p].vertices
        /\ IsToggleCall =>
               \A p \in DOMAIN hex_map :
                   p # last_op'.pos.val => hex_map'[p].highlight = hex_map[p].highlight]_vars

C7_Witness ==
    /\ last_op.op = "toggle_cell_highlight"
    /\ last_op.result = "Ok"
    /\ Cardinality(DOMAIN hex_map) > 1
    /\ hex_map[last_op.pos.val].highlight
    /\ \E p \in DOMAIN hex_map : ~hex_map[p].highlight

\* The rounding error of each fractional axis
RoundingDeltas(f) ==
    [x |-> Abs(f.x - ToF(FRound(f.x))),
     y |-> Abs(f.y - ToF(FRound(f.y))),
     z |-> Abs(f.z - ToF(FRound(f.z)))]

\* The cube roundings of f: all axes rounded, one axis of largest rounding
\* error recomputed from the other two
CubeRoundings(f) ==
    LET r == HexRounded(f.x, f.y, f.z)
        d == RoundingDeltas(f)
    IN  (IF d.x >= d.y /\ d.x >= d.z THEN {Pos(-r.y - r.z, r.y, r.z)} ELSE {})
        \cup (IF d.y >= d.x /\ d.y >= d.z THEN {Pos(r.x, -r.x - r.z, r.z)} ELSE {})
        \cup (IF d.z >= d.x /\ d.z >= d.y THEN {Pos(r.x, r.y, -r.x - r.y)} ELSE {})

\* C8: pixel_to_hex_coords succeeds with the cube-rounded coordinate when no
\* axis of it exceeds the grid radius, and otherwise fails with OutOfBounds.
C8_PixelToHexOutOfBounds ==
    conv_pc = "done" =>
        LET rounded == CubeRoundings(PixelToFractional(cart_coords))
        IN  /\ conv_result.ok =>
                   /\ conv_result.val \in rounded
                   /\ AxisMax(conv_result.val) <= grid_radius
            /\ ~conv_result.ok =>
                   /\ conv_result.err = "OutOfBounds"
                   /\ \E c \in rounded : AxisMax(c) > grid_radius

C8_Witness ==
    /\ conv_pc = "done"
    /\ ~hex_pos.ok
    /\ ~conv_result.ok
    /\ grid_radius > 0

\* A step that is a left-button click at a pixel whose conversion fails
IsOutsideClick ==
    /\ events' = events + 1
    /\ last_op'.op = "mouse_button_down_event"
    /\ last_op'.button = "Left"
    /\ ~pixel_to_hex_coords(last_op'.at, grid_radius).ok

\* C9: a left-button click at a pixel outside the grid radius changes no
\* cell, no mesh and no other part of the game, and the handler returns.
C9_OutsideClickNoOp ==
    [][IsOutsideClick =>
        /\ hex_map' = hex_map
        /\ base_grid_mesh' = base_grid_mesh
        /\ pc' = pc
        /\ last_op'.result = "Ok"
        /\ UNCHANGED <<grid_radius, radial_size>>]_vars

C9_Witness ==
    /\ last_op.op = "mouse_button_down_event"
    /\ last_op.button = "Left"
    /\ ~last_op.pos.ok
    /\ last_op.result = "Ok"
    /\ \E p \in DOMAIN hex_map : hex_map[p].highlight

\* The entries add_radials_to_mesh added at level L
AddedAt(L) == {k \in 1..Len(mesh_builder) : mesh_builder[k].level = L}

\* C10: add_radials_to_mesh with radius r adds 3*r*(r+1) cells: at each
\* level L < r six primary cells and 6*L interstitial ones.
C10_RadialCellCount ==
    rad_pc = "done" =>
        /\ Len(mesh_builder) = 3 * rad_args.radius * (rad_args.radius + 1)
        /\ \A L \in 0..(rad_args.radius - 1) :
               /\ Cardinality(AddedAt(L)) = 6 * (L + 1)
               /\ Cardinality({k \in AddedAt(L) : mesh_builder[k].j = 0}) = 6
               /\ Cardinality({k \in AddedAt(L) : mesh_builder[k].j > 0}) = 6 * L

C10_Witness ==
    /\ rad_pc = "done"
    /\ rad_args.radius = 2
    /\ Len(mesh_builder) = 18
    /\ Cardinality(AddedAt(1)) = 12

\* The hex coordinate whose cell contains a pixel of the radial expansion
RadialHexOf(p) == pixel_to_hex_coords(p, MaxRadialRadius + 2)

\* The hex distance of two coordinates
HexDistance(a, b) == AxisMax(Pos(a.x - b.x, a.y - b.y, a.z - b.z))

\* A pixel is the center of the cell of a hex coordinate, up to the error
\* of the three-digit trigonometric tables (a tenth of a pixel)
CenteredOn(p, c) ==
    LET q == hex_to_pixel_coords(c)
    IN  Abs(p.x - q.x) * 10 <= SCALE /\ Abs(p.y - q.y) * 10 <= SCALE

\* C11: every cell add_radials_to_mesh emits at level L is centered on a
\* cell at hex distance exactly L+1 from the source cell, and the cells
\* emitted at one level are pairwise distinct (each newly emitted cell
\* differs from the earlier ones of its level): with the count 6*(L+1) of a
\* finished level they cover ring L+1 exactly once.
C11_RadialRingCoverage ==
    LET source == RadialHexOf(rad_args.center)
    IN  /\ \A k \in 1..Len(mesh_builder) :
               LET h == RadialHexOf(mesh_builder[k].cell.center)
               IN  /\ source.ok /\ h.ok
                   /\ CenteredOn(mesh_builder[k].cell.center, h.val)
                   /\ HexDistance(h.val, source.val) = mesh_builder[k].level + 1
        /\ \A k \in 1..(Len(mesh_builder) - 1) :
               mesh_builder[k].level = mesh_builder[Len(mesh_builder)].level
                   => RadialHexOf(mesh_builder[k].cell.center)
                          # RadialHexOf(mesh_builder[Len(mesh_builder)].cell.center)
        /\ rad_pc = "done" =>
               \A L \in 0..(rad_args.radius - 1) :
                   Cardinality({RadialHexOf(mesh_builder[k].cell.center) : k \in AddedAt(L)})
                       = 6 * (L + 1)

C11_Witness ==
    /\ rad_pc = "done"
    /\ rad_args.radius = 3
    /\ rad_args.center # hex_to_pixel_coords(PositionDefault)
    /\ \E k \in AddedAt(2) :
           /\ mesh_builder[k].j = 2
           /\ HexDistance(RadialHexOf(mesh_builder[k].cell.center).val,
                          RadialHexOf(rad_args.center).val) = 3

\* The six sides
SideSet == {SideOrder[i] : i \in 1..6}

\* The sides whose unit translation is a delta
SidesOfDelta(delta) == {s \in SideSet : TranslationFrom(s) = delta}

\* The side half a turn away
OppositeSide(s) == SideOrder[((IndexIn(SideOrder, s) + 2) % 6) + 1]

\* The vertices of the cell of a hex coordinate
VerticesOf(c) ==
    LET cell == new_from_hex_coords(c, HEX_RADIUS_VERTEX)
    IN  {cell.vertices[i] : i \in 1..6}

\* C12: the adjacency query maps the delta of two cells to the side of the
\* table (0,1,-1) N, (1,0,-1) NE, (1,-1,0) SE, (0,-1,1) S, (-1,0,1) SW,
\* (-1,1,0) NW, and for any other delta it fails with the recoverable
\* NotAdjacent error instead of aborting.
C12_AdjacencyNotAdjacent ==
    adj_pc # "idle" =>
        LET delta == PositionSub(adj_prev, adj_cur)
        IN  IF SidesOfDelta(delta) # {}
            THEN /\ adj_result.ok
                 /\ SidesOfDelta(delta) = {adj_result.val.direction}
            ELSE /\ adj_pc # "panicked"
                 /\ adj_result = Err("NotAdjacent")

\* C13: for two adjacent cells a and b, a - b is the unit translation of
\* exactly one side, and the side the query gives for (a, b) is the opposite
\* of the side it gives for (b, a).
C13_AdjacencyOpposite ==
    (adj_pc # "idle" /\ HexDistance(adj_prev, adj_cur) = 1) =>
        /\ Cardinality(SidesOfDelta(PositionSub(adj_prev, adj_cur))) = 1
        /\ adj_result.ok
        /\ SideFromTranslation(PositionSub(adj_cur, adj_prev)).ok
        /\ adj_result.val.direction =
               OppositeSide(SideFromTranslation(PositionSub(adj_cur, adj_prev)).val)

C13_Witness ==
    /\ adj_pc = "done"
    /\ adj_prev = Pos(1, 0, -1)
    /\ adj_cur = Pos(1, -1, 0)
    /\ adj_result.val.direction = "NORTH"

\* The endpoints of the segment on cell a for a side
SideSegment(a, side) ==
    LET cell == new_from_hex_coords(a, HEX_RADIUS_VERTEX)
    IN  <<cell.vertices[VertexIndex(get_adjacent_vertices(side)[1])],
          cell.vertices[VertexIndex(get_adjacent_vertices(side)[2])]>>

\* C14 as stated: for adjacent cells a (the cell the line is drawn on) and
\* b, with s the side of the delta a - b, the segment of a's vertices for s
\* is the edge between a and b: both endpoints are vertices of b as well.
C14_SharedEdgeFromAMinusB ==
    (adj_pc # "idle" /\ HexDistance(adj_prev, adj_cur) = 1) =>
        LET s == SideFromTranslation(PositionSub(adj_cur, adj_prev))
        IN  /\ s.ok
            /\ SideSegment(adj_cur, s.val)[1] \in VerticesOf(adj_prev)
            /\ SideSegment(adj_cur, s.val)[2] \in VerticesOf(adj_prev)

\* C14, amended: for adjacent cells a (the cell the line is drawn on) and b,
\* with s the side of the delta b - a, the line update_obstacle_mesh draws
\* is the segment of a's vertices for s, its two endpoints differ and both
\* are vertices of b as well; for a = (0,0,0) and b = (1,0,-1) the side is
\* NE and the endpoints are a's E and NE vertices.
C14_SharedEdge ==
    (adj_pc # "idle" /\ HexDistance(adj_prev, adj_cur) = 1) =>
        LET s == SideFromTranslation(PositionSub(adj_prev, adj_cur))
            a == new_from_hex_coords(adj_cur, HEX_RADIUS_VERTEX)
        IN  /\ s.ok /\ adj_result.ok
            /\ adj_result.val.direction = s.val
            /\ adj_result.val.shared_line = SideSegment(adj_cur, s.val)
            /\ adj_result.val.shared_line[1] # adj_result.val.shared_line[2]
            /\ adj_result.val.shared_line[1] \in VerticesOf(adj_prev)
            /\ adj_result.val.shared_line[2] \in VerticesOf(adj_prev)
            /\ (adj_cur = PositionDefault /\ adj_prev = Pos(1, 0, -1)) =>
                   /\ adj_result.val.direction = "NORTHEAST"
                   /\ adj_result.val.shared_line
                          = <<a.vertices[VertexIndex("EAST")],
                              a.vertices[VertexIndex("NORTHEAST")]>>

C14_Witness ==
    /\ adj_pc = "done"
    /\ adj_cur = PositionDefault
    /\ adj_prev = Pos(1, 0, -1)
    /\ adj_result.val.direction = "NORTHEAST"

\* C20: for every cell c of the disk, pixel_to_hex_coords of c's pixel
\* centroid, of a point one pixel away from the centroid and of the other
\* sampled points strictly inside c's hexagon returns Ok(c).
C20_HitTestStability ==
    (conv_pc = "done" /\ hit_cell.ok) => conv_result = Ok(hit_cell.val)

C20_Witness ==
    /\ conv_pc = "done"
    /\ hit_cell = Ok(Pos(2, -1, -1))
    /\ cart_coords = Point(hex_to_pixel_coords(Pos(2, -1, -1)).x + ToF(1),
                           hex_to_pixel_coords(Pos(2, -1, -1)).y - ToF(1))
    /\ conv_result = Ok(Pos(2, -1, -1))

\* Two points are within a thousandth of a pixel of each other
Near(p, q) == Abs(p.x - q.x) <= 1 /\ Abs(p.y - q.y) <= 1

\* C19: new_from_pixel_coords(center, v) stores the center unchanged and
\* returns six vertices counter-clockwise from the east vertex, vertex i at
\* (cx + v*cos(i*pi/3), cy - v*sin(i*pi/3)); for center (500, 500) and
\* v = 25 they are (525, 500), (512.5, 478.35), (487.5, 478.35), (475, 500),
\* (487.5, 521.65), (512.5, 521.65) within 1e-3.
C19_CellPolygon ==
    poly_pc = "done" =>
        /\ poly_cell.ok
        /\ poly_cell.val.center = poly_center
        /\ Len(poly_cell.val.vertices) = 6
        /\ \A i \in 0..5 :
               Near(poly_cell.val.vertices[i + 1],
                    Point(poly_center.x + FMul(poly_radius, FCos(2 * i)),
                          poly_center.y - FMul(poly_radius, FSin(2 * i))))
        /\ (poly_center = Point(500000, 500000) /\ poly_radius = 25000) =>
               /\ Near(poly_cell.val.vertices[1], Point(525000, 500000))
               /\ Near(poly_cell.val.vertices[2], Point(512500, 478350))
               /\ Near(poly_cell.val.vertices[3], Point(487500, 478350))
               /\ Near(poly_cell.val.vertices[4], Point(475000, 500000))
               /\ Near(poly_cell.val.vertices[5], Point(487500, 521650))
               /\ Near(poly_cell.val.vertices[6], Point(512500, 521650))

C19_Witness ==
    /\ poly_pc = "done"
    /\ poly_center = Point(500000, 500000)
    /\ poly_radius = 25000
    /\ poly_cell.val.vertices[2] = Point(512500, 478350)

\* The cells an instance of a kind occupies: the cell of an actor, the
\* cells of the path of an obstacle, the center of a resource
Footprint(kind, instance) ==
    CASE kind = "actors" -> {instance}
      [] kind = "resources" -> {instance.coords}
      [] kind = "obstacles" -> {instance[k] : k \in 1..Len(instance)}

\* The entities of a record of placed entities, as pairs of kind and index
EntitiesOf(placed) ==
    {e \in (DOMAIN placed) \X (1..INIT_INSTANCES) : e[2] <= Len(placed[e[1]])}

\* The occupancy set of a record of placed entities
Occupied(placed) ==
    UNION {Footprint(e[1], placed[e[1]][e[2]]) : e \in EntitiesOf(placed)}

\* C15: an instance is accepted if and only if its footprint is disjoint
\* from the cells occupied by all placed entities of every kind and lies
\* within the grid radius; so no cell is ever occupied by two placed
\* entities.
C15_TryPlaceDisjoint ==
    /\ place_last.kind # "none" =>
           (place_last.result = "Ok"
               <=> /\ Footprint(place_last.kind, place_last.instance)
                          \cap Occupied(place_before) = {}
                   /\ Footprint(place_last.kind, place_last.instance)
                          \subseteq Disk(grid_radius))
    /\ \A e1, e2 \in EntitiesOf(Placed) :
           e1 # e2 => Footprint(e1[1], Placed[e1[1]][e1[2]])
                          \cap Footprint(e2[1], Placed[e2[1]][e2[2]]) = {}

\* C16, in each state: add_rand_instance has made at most max_attempts
\* calls of add_instance and added at most one instance; once an instance
\* is added the loop is over; when it has returned, it returned Ok with
\* exactly one instance added by its last call, or Err with max_attempts
\* calls made and none added.
C16_RandBounded ==
    /\ rand_calls <= ci_max_rand_attempts
    /\ attempts <= ci_max_rand_attempts
    /\ rand_added <= 1
    /\ rand_added = 1 => (rand_pc = "idle" /\ rand_result = "Ok")
    /\ rand_result = "Ok" =>
           /\ rand_added = 1
           /\ place_last.result = "Ok"
           /\ Len(InstancesOf(place_last.kind)) = Len(place_before[place_last.kind]) + 1
    /\ (rand_pc = "idle" /\ rand_result # "none") =>
           (rand_result = "Err" <=> (rand_calls = ci_max_rand_attempts /\ rand_added = 0))

\* C16: random placement is a bounded retry loop that always terminates.
C16_RandomPlacementTerminates ==
    /\ []C16_RandBounded
    /\ (rand_pc = "loop") ~> (rand_pc = "idle")

C16_Witness ==
    /\ rand_pc = "idle"
    /\ rand_result = "Ok"
    /\ ci_max_rand_attempts = MaxAttempts
    /\ rand_calls = MaxAttempts
    /\ rand_added = 1

\* C17: a random placement that runs out of attempts during the first-frame
\* initialization does not abort the program.
C17_ExhaustionNotFatal ==
    rand_result = "Err" => game_pc # "panicked"

\* The cells within the radius of a placed resource other than its center
InResourceRadius(placed) ==
    UNION {{c \in Disk(MaxPlaceRadius + 1) :
                /\ c # placed.resources[i].coords
                /\ HexDistance(c, placed.resources[i].coords) <= placed.resources[i].radius} :
           i \in 1..Len(placed.resources)}

\* The last add_instance call was for an instance on unoccupied cells, one
\* of them within the radius of a placed resource
PlacedInResourceRadius ==
    /\ place_last.kind # "none"
    /\ Footprint(place_last.kind, place_last.instance) \cap Occupied(place_before) = {}
    /\ Footprint(place_last.kind, place_last.instance) \cap InResourceRadius(place_before) # {}

\* C18: an instance on a cell within the radius of a placed resource that
\* is not occupied by any entity is accepted.
C18_RadiiDoNotReserve ==
    PlacedInResourceRadius => place_last.result = "Ok"

C18_Witness ==
    /\ PlacedInResourceRadius
    /\ place_last.kind = "resources"
    /\ place_last.result = "Ok"
    /\ Len(resources) = 2

\* The ring-1 coordinates in the order the walk is said to emit them, after
\* the origin
RingOneOrder ==
    <<PositionDefault, Pos(1, 0, -1), Pos(0, 1, -1), Pos(-1, 1, 0), Pos(-1, 0, 1),
      Pos(0, -1, 1), Pos(1, -1, 0)>>

\* C21: the ring spiral of radius 2 emits 19 coordinates, and the first 7
\* are the origin followed by the ring-1 coordinates in the order (1,0,-1),
\* (0,1,-1), (-1,1,0), (-1,0,1), (0,-1,1), (1,-1,0).
C21_RingOneOrder ==
    radial_size = 2 =>
        /\ pc = "ready" => Len(spiral) = 19
        /\ \A i \in 1..Len(RingOneOrder) :
               i <= Len(spiral) => spiral[i].pos = RingOneOrder[i]

\* The coordinates emitted while walking ring level L, in order
EmittedAt(L) == SelectSeq(spiral, LAMBDA e : e.level = L)

\* The cells of ring L
Ring(L) == {p \in Disk(L) : AxisMax(p) = L}

\* The ring walk of level L is over
RingWalked(L) == L >= 1 /\ (radial_level > L \/ pc = "ready") /\ Len(EmittedAt(L)) = 6 * L

\* C22: the walk of every ring level L emits each cell of ring L exactly
\* once and no cell outside ring L, its last cell is the ring's starting
\* cell one NE step from the previous ring's last cell, and no step of the
\* construction fails when the context allows the radius.
C22_RingWalkCloses ==
    /\ grid_radius >= radial_size => pc # "panicked"
    /\ \A i \in 1..Len(spiral) : spiral[i].level >= 1 => spiral[i].pos \in Ring(spiral[i].level)
    /\ \A L \in 1..MaxBuildRadius :
           RingWalked(L) =>
               LET walked == EmittedAt(L)
                   before == EmittedAt(L - 1)
               IN  /\ {walked[i].pos : i \in 1..Len(walked)} = Ring(L)
                   /\ \A i, j \in 1..Len(walked) : i # j => walked[i].pos # walked[j].pos
                   /\ walked[Len(walked)].pos
                          = [x |-> before[Len(before)].pos.x + 1,
                             y |-> before[Len(before)].pos.y,
                             z |-> before[Len(before)].pos.z - 1]

\* The largest of the rounding errors of the three axes
LargestDelta(d) ==
    IF d.x >= d.y /\ d.x >= d.z THEN d.x ELSE IF d.y >= d.z THEN d.y ELSE d.z

\* C23: hex_round rounds each of x_f, y_f, z_f to the nearest integer and
\* recomputes from the other two an axis whose rounding error is the largest
\* of the three: the triple it returns sums to zero and its other two axes
\* equal their rounded values.
C23_CubeRounding ==
    conv_pc = "done" =>
        LET f == PixelToFractional(cart_coords)
            r == HexRounded(f.x, f.y, f.z)
            d == RoundingDeltas(f)
            h == hex_round(f.x, f.y, f.z, WINDOW_X)
        IN  /\ h.ok
            /\ h.val.x + h.val.y + h.val.z = 0
            /\ \/ d.x = LargestDelta(d) /\ h.val.y = r.y /\ h.val.z = r.z
               \/ d.y = LargestDelta(d) /\ h.val.x = r.x /\ h.val.z = r.z
               \/ d.z = LargestDelta(d) /\ h.val.x = r.x /\ h.val.y = r.y
            /\ \A a \in {f.x, f.y, f.z} : 2 * Abs(a - ToF(FRound(a))) <= SCALE
            /\ conv_result.ok => conv_result.val = h.val

\* A pixel whose three roundings do not sum to zero, the y axis having the
\* largest rounding error, was converted
C23_Witness ==
    /\ conv_pc = "done"
    /\ conv_result.ok
    /\ LET f == PixelToFractional(cart_coords)
           r == HexRounded(f.x, f.y, f.z)
           d == RoundingDeltas(f)
       IN  /\ r.x + r.y + r.z # 0
           /\ d.y > d.x /\ d.y > d.z
           /\ conv_result.val.y # r.y

\* alpha0 - L/r clamped from below at alpha_min
ClampedAlpha(alpha0, L, r) ==
    LET decayed == alpha0 - RoundDiv(ToF(L), r)
    IN  IF decayed < MIN_ALPHA_VAL THEN MIN_ALPHA_VAL ELSE decayed

\* C24: with a gradient, the fill alpha of every cell added at level L is
\* alpha0 - L/r clamped from below at MIN_ALPHA_VAL (within the rounding of
\* the repeated subtraction), so it is never below MIN_ALPHA_VAL and never
\* negative.
C24_AlphaFloor ==
    rad_args.has_gradient =>
        \A k \in 1..Len(mesh_builder) :
            LET e == mesh_builder[k]
            IN  /\ e.alpha >= 0
                /\ e.alpha >= MIN_ALPHA_VAL
                /\ Abs(e.alpha - ClampedAlpha(rad_args.alpha, e.level, rad_args.radius))
                       <= MaxRadialRadius

\* The level, direction index and interstitial index of the k-th cell of a
\* sequence in level-major, direction-major, interstitial-index order:
\* 3*L*(L+1) cells come before level L, and each direction of level L has
\* its primary cell (index 0) and L interstitial cells
OrderedSlot(k) ==
    LET L == CHOOSE n \in 0..MaxRadialRadius :
                 3 * n * (n + 1) < k /\ k <= 3 * (n + 1) * (n + 2)
        within == k - 3 * L * (L + 1) - 1
    IN  [level |-> L, i |-> within \div (L + 1), j |-> within % (L + 1)]

\* The center of the cell of a slot around a source center: level + 1 cell
\* distances along the angle of the i-th vertex of E, NE, NW, W, SW, SE
\* rotated by PI/6, then j cell distances along that angle plus 4*PI/6
SlotCenter(source, slot) ==
    LET theta == VertexAngle(VertexOrder[slot.i + 1]) + 1
        D == HEX_RADIUS_SIDE * 2
    IN  Point(source.x + FMul(D, FCos(theta)) * (slot.level + 1)
                  + FMul(D, FCos(theta + 4)) * slot.j,
              source.y - FMul(D, FSin(theta)) * (slot.level + 1)
                  - FMul(D, FSin(theta + 4)) * slot.j)

\* C25: the k-th cell the radial expansion emits is the cell of the k-th
\* slot in level-major, then direction-major (E, NE, NW, W, SW, SE, each
\* rotated by PI/6), then interstitial-index order, the primary cell of a
\* direction coming before its interstitial cells j = 1..L.
C25_RadialOrder ==
    \A k \in 1..Len(mesh_builder) :
        LET slot == OrderedSlot(k)
            expected == SlotCenter(rad_args.center, slot)
            e == mesh_builder[k]
        IN  /\ e.level = slot.level
            /\ Abs(e.cell.center.x - expected.x) <= 100
            /\ Abs(e.cell.center.y - expected.y) <= 100
            /\ RadialHexOf(e.cell.center) = RadialHexOf(expected)

\* An expansion of three levels is over: the last cell emitted is the last
\* interstitial cell of the SE direction of the last level
C25_Witness ==
    /\ rad_pc = "done"
    /\ rad_args.radius = 3
    /\ Len(mesh_builder) = 36
    /\ OrderedSlot(36) = [level |-> 2, i |-> 5, j |-> 2]
    /\ mesh_builder[36].i = 5
    /\ mesh_builder[36].j = 2

HighlightChanged(before, after) ==
    {p \in DOMAIN before : after[p].highlight # before[p].highlight}

\* C27: on a constructed registry a left-button click toggles the highlight
\* of exactly the cell pixel_to_hex_coords returns or changes nothing, a
\* click with another button changes no cell, and no click aborts: every
\* coordinate pixel_to_hex_coords accepts under the context's grid radius is
\* a key of the registry.
C27_ClickNeverAborts ==
    /\ pc = "ready" => Disk(grid_radius) \subseteq DOMAIN hex_map
    /\ last_op.op = "mouse_button_down_event" =>
           /\ last_op.result # "panic"
           /\ pc # "panicked"
           /\ DOMAIN hex_map = DOMAIN before_last
           /\ IF last_op.button = "Left" /\ last_op.pos.ok
              THEN HighlightChanged(before_last, hex_map) = {last_op.pos.val}
              ELSE HighlightChanged(before_last, hex_map) = {}

\* The cells of the path of an obstacle
PathCells(obstacle) == {obstacle[k] : k \in 1..Len(obstacle)}

\* C28: the entities one manager holds never overlap each other: no two
\* actors and no two resources have the same origin, and no two obstacles
\* share a cell of their paths.
C28_ManagerNoOverlap ==
    /\ \A i, j \in 1..Len(actors) : i # j => actors[i] # actors[j]
    /\ \A i, j \in 1..Len(resources) : i # j => resources[i].coords # resources[j].coords
    /\ \A i, j \in 1..Len(obstacles) :
           i # j => PathCells(obstacles[i]) \cap PathCells(obstacles[j]) = {}

\* An obstacle was refused for a cell on the path of a longer obstacle that
\* is not that obstacle's first cell
C28_Witness ==
    /\ place_last.kind = "obstacles"
    /\ place_last.result = "Err"
    /\ Len(resources) = INIT_INSTANCES
    /\ \E i \in 1..Len(obstacles) :
           /\ Len(obstacles[i]) = 2
           /\ place_last.instance[1] = obstacles[i][2]

\* C29: a rejected placement leaves the list of the manager as it was; an
\* accepted one appends the new instance at the end and leaves the
\* instances placed before unchanged and in their order; the lists of the
\* other managers do not change.
C29_PlacementFrame ==
    place_last.kind # "none" =>
        /\ place_last.result = "Err" =>
               InstancesOf(place_last.kind) = place_before[place_last.kind]
        /\ place_last.result = "Ok" =>
               InstancesOf(place_last.kind)
                   = Append(place_before[place_last.kind], place_last.instance)
        /\ \A i \in 1..Len(Kinds) :
               Kinds[i] # place_last.kind => InstancesOf(Kinds[i]) = place_before[Kinds[i]]

\* An actor was accepted after two others, the call before having been
\* refused
C29_Witness ==
    /\ place_last.kind = "actors"
    /\ place_last.result = "Ok"
    /\ Len(place_before.actors) = 2
    /\ rand_calls = 2
    /\ actors = Append(place_before.actors, place_last.instance)

\* The entities of each kind initialize asks for are placed
AllPlaced ==
    /\ Len(resources) = INIT_INSTANCES
    /\ Len(obstacles) = INIT_INSTANCES
    /\ Len(actors) = INIT_INSTANCES

\* C30, in each state: the flag is set only with three resources, three
\* obstacles and three actors placed, the obstacles are placed after the
\* resources and the actors after the obstacles, and once the flag is set
\* initialize is not running.
C30_InitializedState ==
    /\ initialized => (AllPlaced /\ game_pc = "running")
    /\ game_pc = "new" => (~initialized /\ Placed = [actors |-> << >>, obstacles |-> << >>,
                                                     resources |-> << >>])
    /\ obstacles # << >> => Len(resources) = INIT_INSTANCES
    /\ actors # << >> => Len(obstacles) = INIT_INSTANCES

\* C30: first-frame initialization runs exactly once: the initialized flag
\* starts false, is set during the first update after three resources,
\* three obstacles and three actors were placed in that order, never
\* returns to false, and no later update, draw, mouse or key event places
\* further entities.
C30_InitializationOnce ==
    /\ ~initialized
    /\ []C30_InitializedState
    /\ [][initialized => (initialized' /\ Placed' = Placed /\ game_pc' = "running")]_vars
    /\ [][(~initialized /\ initialized') => (game_pc = "initialize" /\ AllPlaced)]_vars

\* Host events were handled after the initialization
C30_Witness ==
    /\ initialized
    /\ AllPlaced
    /\ updates = MaxUpdates
    /\ game_pc = "running"

====
